---- MODULE Spec2Model ----
(***************************************************************************)
(* A model of rsa-rs: the arithmetic layer (fast modular exponentiation,   *)
(* Miller-Rabin, extended Euclid), the prime searcher with its process-    *)
(* wide cache, the key builder and the block pipeline.                     *)
(*                                                                         *)
(* BigInt values are modelled by integers; the model keeps every           *)
(* intermediate product below 2^31 by reducing as the code reduces.        *)
(***************************************************************************)
EXTENDS Integers, Sequences, FiniteSets, TLC

VARIABLES
    call,           \* arithmetic layer: the function applied and its arguments
    ret,            \* arithmetic layer: the value it returned
    PRIMES_CACHE,   \* prime_gen.rs: the process-wide stack of surplus primes
    threads,        \* RSA.threads
    retry,          \* RSA.retry
    time_max,       \* RSA.time_max
    prime_min,      \* RSA.prime_min
    prime_max,      \* RSA.prime_max
    at,             \* generate_key: the statement it is at
    gp,             \* generate_prime: the statement it is at
    low,            \* generate_prime: its argument low
    high,           \* generate_prime: its argument high
    running,        \* generate_prime: spawned workers that have not sent yet
    rx,             \* generate_prime: the results its workers sent, in order
    recvd,          \* generate_prime: results received by `for _ in 0..t`
    gk_p,           \* generate_key: p
    gk_q,           \* generate_key: q
    keys,           \* generate_key: the KeySet returned
    returned,       \* the last value generate_prime returned, with its bounds
    caller,         \* concurrent callers of generate_prime: position and locals of each
    calls,          \* generate_key calls made by this process
    input,          \* function_test: the bytes of the input file
    phase,          \* function_test: "encode", "decode" or "done"
    overflow_checks,\* the build: TRUE panics on integer overflow, FALSE wraps
    mode,           \* process: its argument mode
    reader,         \* process: the bytes of its reader
    source_data,    \* process: source_data
    filesize_data,  \* process: filesize_data
    map_ch,         \* process: the bounded channel map_tx -> map_rx
    map_open,       \* process: map_tx has not been dropped
    reduce_ch,      \* process: the bounded channel reduce_tx -> reduce_rx
    worker,         \* process: each worker thread's position and result
    co,             \* process: the statement the calling thread is at
    next_i,         \* process: i of `for i in 0..source_data.len()`
    res_collect,    \* process: res_collect
    left,           \* process: results still to receive after the drop
    written,        \* process: the bytes written to its writer
    kd,             \* key files: the KeyData that is saved
    base64_output,  \* key files: the argument base64_output of save
    file,           \* key files: the file at the path, if it exists
    key_reader,     \* key files: the KeyReader built on the file
    loaded          \* key files: the KeyData returned by KeyData::from

arithVars == <<call, ret>>
keyVars == <<PRIMES_CACHE, threads, retry, time_max, prime_min, prime_max, at, gp, low, high,
             running, rx, recvd, gk_p, gk_q, keys, returned, caller, calls>>
procVars == <<input, phase, overflow_checks, mode, reader, source_data,
              filesize_data, map_ch, map_open, reduce_ch, worker, co, next_i,
              res_collect, left, written>>
codecVars == <<kd, base64_output, file, key_reader, loaded>>
\* what concurrent generate_prime calls neither read nor write
raceFixed == <<prime_min, prime_max, at, gp, running, rx, recvd, gk_p, gk_q, keys,
               returned, calls>>
vars == <<call, ret, PRIMES_CACHE, threads, retry, time_max, prime_min, prime_max, at, gp,
          low, high, running, rx, recvd, gk_p, gk_q, keys, returned, caller, calls,
          input, phase, overflow_checks, mode, reader, source_data,
          filesize_data, map_ch, map_open, reduce_ch, worker, co, next_i,
          res_collect, left, written, kd, base64_output, file, key_reader,
          loaded>>

(***************************************************************************)
(* Bounds of the arithmetic specification.                                 *)
(***************************************************************************)
MaxBase == 5        \* fast_modular_exponent: a in 0..MaxBase
MaxExp == 9         \* fast_modular_exponent: q in 0..MaxExp
MaxMod == 7         \* fast_modular_exponent: n in 1..MaxMod
MaxPhi == 24        \* mod_reverse: e, phi in 0..MaxPhi
MaxCand == 15       \* miller_rabin: n in 0..MaxCand
MaxRounds == 2      \* miller_rabin: rounds in 1..MaxRounds
MaxPrime == 17      \* test_simple_data: p, q primes up to MaxPrime
MaxE == 9           \* test_simple_data: e in 1..MaxE
MaxThreads == 2     \* generate_key: threads in 1..MaxThreads
MaxPrimeMin == 2    \* generate_key: prime_min in 1..MaxPrimeMin
MaxPrimeMax == 4    \* generate_key: prime_max in prime_min+1..MaxPrimeMax
MaxDraw == 9        \* generate_one_prime: the rng draws candidates up to MaxDraw
MaxCallers == 2     \* threads of the process that call generate_prime concurrently
MaxCalls == 2       \* generate_key calls made by one process
MaxLen == 3         \* function_test: input files of up to MaxLen bytes
MaxModBits == 29    \* get_group_size_byte: moduli of up to MaxModBits bits

(***************************************************************************)
(* BigInt arithmetic (num_bigint): `/` and `%` truncate toward zero, the   *)
(* remainder takes the sign of the dividend.                               *)
(***************************************************************************)
TruncDiv(a, b) == IF a >= 0 THEN a \div b ELSE -((-a) \div b)

TruncRem(a, b) == IF a >= 0 THEN a % b ELSE -((-a) % b)

\* BigInt::bit(0)
Bit0(x) == x % 2 = 1

\* (x * y) % n on BigInt, for 0 <= x, y and 0 < n < 2^25: the exact product
\* reduced.  y is taken 6 bits at a time, so that no intermediate value
\* reaches 2^31.
RECURSIVE MulMod(_, _, _)
MulMod(x, y, n) ==
    IF y < 64 THEN ((x % n) * y) % n
    ELSE (((MulMod(x, y \div 64, n) * 64) % n)
            + (((x % n) * (y % 64)) % n)) % n

(***************************************************************************)
(* prime_gen.rs: RSA::fast_modular_exponent                                *)
(***************************************************************************)
FmeLoop[r \in Int, a \in Int, q \in Int, n \in Int] ==
    IF q = 0 THEN r
    ELSE FmeLoop[IF Bit0(q) THEN MulMod(r, a, n) ELSE r,
                 MulMod(a, a, n), q \div 2, n]

\* a variant that squares a before it multiplies r
RECURSIVE FmeLoopSquareFirst(_, _, _, _)
FmeLoopSquareFirst(r, a, q, n) ==
    IF q = 0 THEN r
    ELSE LET a2 == MulMod(a, a, n)
         IN  FmeLoopSquareFirst(IF Bit0(q) THEN MulMod(r, a2, n) ELSE r,
                                a2, q \div 2, n)

fast_modular_exponent_square_first(a, q, n) == FmeLoopSquareFirst(1, a, q, n)

fast_modular_exponent(a, q, n) == FmeLoop[1, a, q, n]

(***************************************************************************)
(* prime_gen.rs: RSA::miller_rabin.  ws is the sequence of witnesses the    *)
(* thread rng yields, one per round.                                       *)
(***************************************************************************)
\* while d.bit(0) { d >>= 1; }
RECURSIVE StripLowBits(_)
StripLowBits(d) == IF Bit0(d) THEN StripLowBits(d \div 2) ELSE d

\* the witnesses without the offset 2: gen_biguint_range(0, n)
Witnesses_without_offset(n) == 0..(n - 1)

\* rng.gen_biguint_range(0, n - 2) + 2
Witnesses(n) == {x + 2 : x \in 0..(n - 3)}

\* the inner `while d < *n` loop: TRUE iff `pass` is set
RECURSIVE SquareLoop(_, _, _)
SquareLoop(m, d, n) ==
    IF d < n
    THEN IF m = n - 1 THEN TRUE
         ELSE SquareLoop(MulMod(m, m, n), d * 2, n)
    ELSE FALSE

\* a variant whose `pass` starts out true
MillerRabinRound_pass_preset(a, n) ==
    LET d == StripLowBits(n - 1)
        m == fast_modular_exponent(a, d, n)
    IN  IF m = 1 THEN TRUE ELSE (TRUE \/ SquareLoop(m, d, n))

\* one iteration of `for _ in 0..rounds` with witness a: TRUE iff it continues
MillerRabinRound(a, n) ==
    LET d == StripLowBits(n - 1)
        m == fast_modular_exponent(a, d, n)
    IN  IF m = 1 THEN TRUE ELSE SquareLoop(m, d, n)

miller_rabin(n, ws) ==
    IF n = 0 THEN TRUE
    ELSE IF ~Bit0(n) \/ n = 1 THEN FALSE
    ELSE \A i \in 1..Len(ws) : MillerRabinRound(ws[i], n)

\* the witness sequences the rng can yield for n in `rounds` rounds
WitnessSeqs(n, rounds) ==
    IF n = 0 \/ ~Bit0(n) \/ n = 1 THEN {<<>>}
    ELSE [1..rounds -> Witnesses(n)]

(***************************************************************************)
(* mod.rs: RSA::euler, RSA::extended_euclid, RSA::mod_reverse,             *)
(* RSA::check_key_set                                                      *)
(***************************************************************************)
euler(p, q) == (p - 1) * (q - 1)

\* a variant that returns the coefficients without swapping them
RECURSIVE extended_euclid_unswapped(_, _, _, _)
extended_euclid_unswapped(a, b, x, y) ==
    IF b = 0 THEN <<a, 1, 0>>
    ELSE LET r == extended_euclid_unswapped(b, TruncRem(a, b), y, x)
         IN  <<r[1], r[2], r[3] - TruncDiv(a, b) * r[2]>>

RECURSIVE extended_euclid(_, _, _, _)
extended_euclid(a, b, x, y) ==
    IF b = 0 THEN <<a, 1, 0>>
    ELSE LET r == extended_euclid(b, TruncRem(a, b), y, x)
         IN  <<r[1], r[3], r[2] - TruncDiv(a, b) * r[3]>>

\* a variant without the `+ b` normalisation
mod_reverse_unnormalised(a, b) ==
    LET d == extended_euclid(a, b, 0, 1)
    IN  IF d[1] = 1 THEN TruncRem(d[2], b) ELSE 0

\* a variant that takes the coefficient of b instead of the coefficient of a
mod_reverse_other_coefficient(a, b) ==
    LET d == extended_euclid(a, b, 0, 1)
    IN  IF d[1] = 1 THEN TruncRem(TruncRem(d[3], b) + b, b) ELSE 0

mod_reverse(a, b) ==
    LET d == extended_euclid(a, b, 0, 1)
    IN  IF d[1] = 1 THEN TruncRem(TruncRem(d[2], b) + b, b) ELSE 0

\* BigInt::bits
RECURSIVE Bits(_)
Bits(n) == IF n = 0 THEN 0 ELSE 1 + Bits(n \div 2)

\* f64::log2(k).ceil() for k >= 1
RECURSIVE CeilLog2(_)
CeilLog2(k) == IF k <= 1 THEN 0 ELSE 1 + CeilLog2((k + 1) \div 2)

\* get_group_size_byte without the final division by two
get_group_size_byte_undivided(n) ==
    LET k == Bits(n) \div 8
    IN  IF k = 0 THEN 0 ELSE 2 ^ CeilLog2(k)

\* f64::pow(2, log2(bits / 8).ceil()) as usize / 2; log2(0) is -inf and
\* 2^-inf is 0
get_group_size_byte(n) ==
    LET k == Bits(n) \div 8
    IN  IF k = 0 THEN 0 ELSE (2 ^ CeilLog2(k)) \div 2

\* Integer::gcd of num
RECURSIVE gcd(_, _)
gcd(a, b) == IF b = 0 THEN a ELSE gcd(b, a % b)

\* the assertion of check_key_set: TRUE iff it passes
check_key_set(d, e, f) ==
    LET res == IF d >= 0 /\ e >= 0 THEN MulMod(d, e, f) ELSE TruncRem(d * e, f)
    IN  res = 1

(***************************************************************************)
(* The arithmetic specification: each action applies one function of the   *)
(* arithmetic layer to inputs drawn from the bounded sets above.           *)
(***************************************************************************)
\* the key builder before its first call
KeyIdle ==
    /\ PRIMES_CACHE = <<>>
    /\ at = "idle"
    /\ gp = "none"
    /\ low = 0
    /\ high = 0
    /\ running = 0
    /\ rx = <<>>
    /\ recvd = 0
    /\ gk_p = 0
    /\ gk_q = 0
    /\ keys = [public |-> [base |-> 0, m |-> 0], private |-> [base |-> 0, m |-> 0]]
    /\ returned = [valid |-> FALSE]
    /\ caller = <<>>
    /\ calls = 0

\* no process run has started
CodecIdle ==
    /\ kd = [valid |-> FALSE]
    /\ base64_output = FALSE
    /\ file = [exists |-> FALSE]
    /\ key_reader = [binary |-> "None"]
    /\ loaded = [valid |-> FALSE]

ProcIdle ==
    /\ input = <<>>
    /\ phase = "none"
    /\ overflow_checks = TRUE
    /\ mode = "none"
    /\ reader = <<>>
    /\ source_data = <<>>
    /\ filesize_data = 0
    /\ map_ch = <<>>
    /\ map_open = FALSE
    /\ reduce_ch = <<>>
    /\ worker = <<>>
    /\ co = "none"
    /\ next_i = 0
    /\ res_collect = <<>>
    /\ left = 0
    /\ written = <<>>

ArithInit ==
    /\ call = [fn |-> "none"]
    /\ ret = 0
    /\ threads = 1
    /\ retry = TRUE
    /\ time_max = 1000
    /\ prime_min = 14
    /\ prime_max = 512
    /\ KeyIdle
    /\ ProcIdle
    /\ CodecIdle

Call_fast_modular_exponent ==
    /\ call.fn = "none"
    /\ \E a \in 0..MaxBase, q \in 0..MaxExp, n \in 1..MaxMod :
        /\ call' = [fn |-> "fast_modular_exponent", a |-> a, q |-> q, n |-> n]
        /\ ret' = fast_modular_exponent(a, q, n)

Call_mod_reverse ==
    /\ call.fn = "none"
    /\ \E a \in 0..MaxPhi, b \in 1..MaxPhi :
        /\ call' = [fn |-> "mod_reverse", a |-> a, b |-> b]
        /\ ret' = mod_reverse(a, b)

Call_miller_rabin ==
    /\ call.fn = "none"
    /\ \E n \in 0..MaxCand, rounds \in 1..MaxRounds :
        \E ws \in WitnessSeqs(n, rounds) :
            /\ call' = [fn |-> "miller_rabin", n |-> n, rounds |-> rounds, ws |-> ws,
                         d |-> IF n = 0 \/ ~Bit0(n) \/ n = 1 THEN 0
                               ELSE StripLowBits(n - 1)]
            /\ ret' = miller_rabin(n, ws)

\* the moduli get_group_size_byte is applied to: the smallest and the largest
\* of each bit length
GroupModuli == {2 ^ k : k \in 0..MaxModBits} \cup {2 ^ k - 1 : k \in 0..MaxModBits}

Call_get_group_size_byte ==
    /\ call.fn = "none"
    /\ \E m \in GroupModuli :
        /\ call' = [fn |-> "get_group_size_byte", m |-> m]
        /\ ret' = get_group_size_byte(m)

ArithNext ==
    \/ Call_fast_modular_exponent /\ UNCHANGED <<keyVars, procVars, codecVars>>
    \/ Call_mod_reverse /\ UNCHANGED <<keyVars, procVars, codecVars>>
    \/ Call_miller_rabin /\ UNCHANGED <<keyVars, procVars, codecVars>>
    \/ Call_get_group_size_byte /\ UNCHANGED <<keyVars, procVars, codecVars>>

SpecArith == ArithInit /\ [][ArithNext]_vars

(***************************************************************************)
(* main.rs: tests::test_simple_data, with p, q, e and the message x as      *)
(* inputs; the block round trip of RSA::run in Test mode (mod.rs 365-369). *)
(***************************************************************************)
simple_data(p, q, e, x) ==
    LET f == (q - 1) * (p - 1)
        d == mod_reverse(e, f)
        n == p * q
        c == fast_modular_exponent(x, e, n)
        m2 == fast_modular_exponent(c, d, n)
    IN  IF ~check_key_set(d, e, f) THEN [panic |-> TRUE]
        ELSE [panic |-> FALSE, f |-> f, d |-> d, n |-> n, c |-> c, m2 |-> m2]

ToyInit == ArithInit

test_simple_data ==
    /\ call.fn = "none"
    /\ \E p \in 2..MaxPrime, q \in 2..MaxPrime, e \in 1..MaxE :
        \E x \in 0..(p * q - 1) :
            /\ call' = [fn |-> "test_simple_data", p |-> p, q |-> q, e |-> e, x |-> x]
            /\ ret' = simple_data(p, q, e, x)

ToyNext == test_simple_data /\ UNCHANGED <<keyVars, procVars, codecVars>>

SpecToy == ToyInit /\ [][ToyNext]_vars

(***************************************************************************)
(* prime_gen.rs: RSA::generate_prime and RSA::generate_one_prime;          *)
(* mod.rs: RSA::generate_key.  One thread of the process calls             *)
(* generate_key; each search spawns `threads` workers.                     *)
(***************************************************************************)
Pow2(k) == 2 ^ k

\* the values rng.gen_biguint_range(low, high) can yield
gen_biguint_range(lo, hi) == {c \in lo..(hi - 1) : c <= MaxDraw}

\* the candidates miller_rabin accepts for some draw of its witnesses
ProbablePrimes ==
    {c \in 0..MaxDraw : \E ws \in WitnessSeqs(c, MaxRounds) : miller_rabin(c, ws)}

KeyInit ==
    /\ call = [fn |-> "none"]
    /\ ret = 0
    /\ threads \in 1..MaxThreads
    /\ retry \in BOOLEAN
    /\ time_max \in {1, 1000}
    /\ prime_min \in 1..MaxPrimeMin
    /\ prime_max \in 1..MaxPrimeMax
    /\ prime_min < prime_max
    /\ KeyIdle
    /\ ProcIdle
    /\ CodecIdle

\* let low = 2^prime_min; let high = 2^prime_max; generate_prime(&low, &high)
generate_key ==
    /\ at \in {"idle", "done", "err"}
    /\ calls < MaxCalls
    /\ calls' = calls + 1
    /\ at' = "p"
    /\ gp' = "entry"
    /\ low' = Pow2(prime_min)
    /\ high' = Pow2(prime_max)
    /\ gk_p' = 0
    /\ gk_q' = 0
    /\ keys' = [public |-> [base |-> 0, m |-> 0], private |-> [base |-> 0, m |-> 0]]
    /\ UNCHANGED <<PRIMES_CACHE, threads, retry, time_max, prime_min, prime_max, running, rx,
                   recvd, returned, caller>>

\* generate_key resumes with the prime v that generate_prime returned
Resume(v) ==
    CASE at = "p" ->
            /\ gk_p' = v
            /\ at' = "q"
            /\ gp' = "entry"
            /\ UNCHANGED <<gk_q, keys, low, high>>
      [] at = "q" ->
            /\ gk_q' = v
            /\ at' = "e"
            /\ gp' = "entry"
            /\ low' = 1
            /\ high' = euler(gk_p, v)
            /\ UNCHANGED <<gk_p, keys>>
      [] at = "e" ->
            LET f == euler(gk_p, gk_q)
                d == mod_reverse(v, f)
            IN  IF gcd(f, v) = 1
                THEN IF check_key_set(d, v, f)
                     THEN /\ at' = "done"
                          /\ gp' = "none"
                          /\ keys' = [public |-> [base |-> v, m |-> gk_p * gk_q],
                                      private |-> [base |-> d, m |-> gk_p * gk_q]]
                          /\ UNCHANGED <<gk_p, gk_q, low, high>>
                     ELSE /\ at' = "panic"
                          /\ gp' = "none"
                          /\ UNCHANGED <<gk_p, gk_q, keys, low, high>>
                ELSE /\ at' = "e"
                     /\ gp' = "entry"
                     /\ UNCHANGED <<gk_p, gk_q, keys, low, high>>

\* if !PRIMES_CACHE.read().unwrap().is_empty()
gp_check_cache ==
    /\ gp = "entry"
    /\ IF PRIMES_CACHE # <<>>
       THEN /\ gp' = "pop"
            /\ UNCHANGED <<running, rx, recvd>>
       ELSE /\ gp' = "search"
            /\ running' = threads
            /\ rx' = <<>>
            /\ recvd' = 0
    /\ UNCHANGED <<PRIMES_CACHE, threads, retry, time_max, prime_min, prime_max, at, low, high,
                   gk_p, gk_q, keys, returned, calls, caller>>

\* gp_pop_cached reading the last entry without removing it
gp_pop_cached_keeping_entry ==
    /\ gp = "pop"
    /\ PRIMES_CACHE # <<>>
    /\ LET prime == PRIMES_CACHE[Len(PRIMES_CACHE)]
       IN  /\ PRIMES_CACHE' = PRIMES_CACHE
           /\ returned' = [valid |-> TRUE, v |-> prime, low |-> low, high |-> high,
                           cached |-> TRUE]
           /\ Resume(prime)
    /\ UNCHANGED <<threads, retry, time_max, prime_min, prime_max, running, rx, recvd, calls, caller>>

\* PRIMES_CACHE.write().unwrap().pop().unwrap(); return Ok(prime)
gp_pop_cached ==
    /\ gp = "pop"
    /\ PRIMES_CACHE # <<>>
    /\ LET prime == PRIMES_CACHE[Len(PRIMES_CACHE)]
       IN  /\ PRIMES_CACHE' = SubSeq(PRIMES_CACHE, 1, Len(PRIMES_CACHE) - 1)
           /\ returned' = [valid |-> TRUE, v |-> prime, low |-> low, high |-> high,
                           cached |-> TRUE]
           /\ Resume(prime)
    /\ UNCHANGED <<threads, retry, time_max, prime_min, prime_max, running, rx, recvd, calls, caller>>

\* a worker's generate_one_prime draws a candidate that passes miller_rabin
worker_found ==
    /\ gp = "search"
    /\ running > 0
    /\ \E test \in gen_biguint_range(low, high) \cap ProbablePrimes :
           rx' = Append(rx, [ok |-> TRUE, v |-> test])
    /\ running' = running - 1
    /\ UNCHANGED <<PRIMES_CACHE, threads, retry, time_max, prime_min, prime_max, at, gp, low,
                   high, recvd, gk_p, gk_q, keys, returned, calls, caller>>

\* a worker's generate_one_prime runs out of time: Err(Timeout(time)) with the
\* elapsed time, which exceeds time_max
worker_timeout ==
    /\ gp = "search"
    /\ running > 0
    /\ rx' = Append(rx, [ok |-> FALSE, time |-> time_max + 1])
    /\ running' = running - 1
    /\ UNCHANGED <<PRIMES_CACHE, threads, retry, time_max, prime_min, prime_max, at, gp, low,
                   high, recvd, gk_p, gk_q, keys, returned, calls, caller>>

\* one iteration of `for _ in 0..t { match rx.recv().unwrap() ... }`
gp_recv ==
    /\ gp = "search"
    /\ recvd < threads
    /\ Len(rx) > recvd
    /\ PRIMES_CACHE' = IF rx[recvd + 1].ok THEN Append(PRIMES_CACHE, rx[recvd + 1].v)
                       ELSE PRIMES_CACHE
    /\ recvd' = recvd + 1
    /\ gp' = IF recvd + 1 = threads THEN "join" ELSE "search"
    /\ UNCHANGED <<threads, retry, time_max, prime_min, prime_max, at, low, high,
                   running, rx, gk_p, gk_q, keys, returned, calls, caller>>

\* the workers are joined; the cache is empty and retry is set: recurse
gp_retry ==
    /\ gp = "join"
    /\ PRIMES_CACHE = <<>>
    /\ retry
    /\ gp' = "entry"
    /\ UNCHANGED <<PRIMES_CACHE, threads, retry, time_max, prime_min, prime_max, at, low, high,
                   running, rx, recvd, gk_p, gk_q, keys, returned, calls, caller>>

\* gp_timeout without the test of self.retry
gp_timeout_ignoring_retry ==
    /\ gp = "join"
    /\ PRIMES_CACHE = <<>>
    /\ gp' = "none"
    /\ at' = "err"
    /\ returned' = [valid |-> FALSE, Timeout |-> time_max]
    /\ UNCHANGED <<PRIMES_CACHE, threads, retry, time_max, prime_min, prime_max, low, high,
                   running, rx, recvd, gk_p, gk_q, keys, calls, caller>>

\* the workers are joined; the cache is empty: Err(Timeout(self.time_max))
gp_timeout ==
    /\ gp = "join"
    /\ PRIMES_CACHE = <<>>
    /\ ~retry
    /\ gp' = "none"
    /\ at' = "err"
    /\ returned' = [valid |-> FALSE, Timeout |-> time_max]
    /\ UNCHANGED <<PRIMES_CACHE, threads, retry, time_max, prime_min, prime_max, low, high,
                   running, rx, recvd, gk_p, gk_q, keys, calls, caller>>

\* the workers are joined: Ok(PRIMES_CACHE.write().unwrap().pop().unwrap())
gp_pop_found ==
    /\ gp = "join"
    /\ PRIMES_CACHE # <<>>
    /\ LET prime == PRIMES_CACHE[Len(PRIMES_CACHE)]
       IN  /\ PRIMES_CACHE' = SubSeq(PRIMES_CACHE, 1, Len(PRIMES_CACHE) - 1)
           /\ returned' = [valid |-> TRUE, v |-> prime, low |-> low, high |-> high,
                           cached |-> FALSE]
           /\ Resume(prime)
    /\ UNCHANGED <<threads, retry, time_max, prime_min, prime_max, running, rx, recvd, calls, caller>>

KeyNext ==
    \/ generate_key /\ UNCHANGED <<arithVars, procVars, codecVars>>
    \/ gp_check_cache /\ UNCHANGED <<arithVars, procVars, codecVars>>
    \/ gp_pop_cached /\ UNCHANGED <<arithVars, procVars, codecVars>>
    \/ worker_found /\ UNCHANGED <<arithVars, procVars, codecVars>>
    \/ worker_timeout /\ UNCHANGED <<arithVars, procVars, codecVars>>
    \/ gp_recv /\ UNCHANGED <<arithVars, procVars, codecVars>>
    \/ gp_retry /\ UNCHANGED <<arithVars, procVars, codecVars>>
    \/ gp_timeout /\ UNCHANGED <<arithVars, procVars, codecVars>>
    \/ gp_pop_found /\ UNCHANGED <<arithVars, procVars, codecVars>>

SpecKey == KeyInit /\ [][KeyNext]_vars

(***************************************************************************)
(* prime_gen.rs: RSA::generate_prime called by several threads of one      *)
(* process (the tests of main.rs and key_writer.rs run as threads of one   *)
(* test process and share PRIMES_CACHE).  Every acquisition of the lock of *)
(* PRIMES_CACHE is one step; caller[c].pc is the position of caller c.     *)
(***************************************************************************)
RaceInit ==
    /\ call = [fn |-> "none"]
    /\ ret = 0
    /\ threads \in 1..MaxThreads
    /\ retry \in BOOLEAN
    /\ time_max = 1000
    /\ prime_min = 2
    /\ prime_max = 3
    /\ PRIMES_CACHE = <<>>
    /\ at = "idle"
    /\ gp = "none"
    /\ low = Pow2(2)
    /\ high = Pow2(3)
    /\ running = 0
    /\ rx = <<>>
    /\ recvd = 0
    /\ gk_p = 0
    /\ gk_q = 0
    /\ keys = [public |-> [base |-> 0, m |-> 0], private |-> [base |-> 0, m |-> 0]]
    /\ returned = [valid |-> FALSE]
    /\ calls = 0
    /\ caller = [c \in 1..MaxCallers |->
                    [pc |-> "idle", running |-> 0, rx |-> <<>>, recvd |-> 0,
                     result |-> [valid |-> FALSE], calls |-> 0]]
    /\ ProcIdle
    /\ CodecIdle

\* r.generate_prime(&low, &high) is called by thread c
caller_generate_prime(c) ==
    /\ caller[c].pc = "idle"
    /\ caller[c].calls < MaxCalls
    /\ caller' = [caller EXCEPT ![c].pc = "entry", ![c].calls = @ + 1]
    /\ UNCHANGED <<PRIMES_CACHE, threads, retry, time_max, low, high>>

\* if !PRIMES_CACHE.read().unwrap().is_empty(); otherwise the workers are spawned
caller_check_cache(c) ==
    /\ caller[c].pc = "entry"
    /\ caller' = IF PRIMES_CACHE # <<>>
                 THEN [caller EXCEPT ![c].pc = "pop"]
                 ELSE [caller EXCEPT ![c].pc = "search", ![c].running = threads,
                                     ![c].rx = <<>>, ![c].recvd = 0]
    /\ UNCHANGED <<PRIMES_CACHE, threads, retry, time_max, low, high>>

\* PRIMES_CACHE.write().unwrap().pop().unwrap(), at either place: the unwrap of
\* None panics
caller_pop(c) ==
    /\ caller[c].pc \in {"pop", "pop_found"}
    /\ IF PRIMES_CACHE = <<>>
       THEN /\ caller' = [caller EXCEPT ![c].pc = "panic"]
            /\ UNCHANGED PRIMES_CACHE
       ELSE /\ PRIMES_CACHE' = SubSeq(PRIMES_CACHE, 1, Len(PRIMES_CACHE) - 1)
            /\ caller' = [caller EXCEPT
                              ![c].pc = "idle",
                              ![c].result = [valid |-> TRUE,
                                             v |-> PRIMES_CACHE[Len(PRIMES_CACHE)]]]
    /\ UNCHANGED <<threads, retry, time_max, low, high>>

\* a worker of caller c sends Ok(test)
caller_worker_found(c) ==
    /\ caller[c].pc = "search"
    /\ caller[c].running > 0
    /\ \E test \in gen_biguint_range(low, high) \cap ProbablePrimes :
           caller' = [caller EXCEPT ![c].running = @ - 1,
                                    ![c].rx = Append(@, [ok |-> TRUE, v |-> test])]
    /\ UNCHANGED <<PRIMES_CACHE, threads, retry, time_max, low, high>>

\* a worker of caller c sends Err(Timeout(time))
caller_worker_timeout(c) ==
    /\ caller[c].pc = "search"
    /\ caller[c].running > 0
    /\ caller' = [caller EXCEPT
                      ![c].running = @ - 1,
                      ![c].rx = Append(@, [ok |-> FALSE, time |-> time_max + 1])]
    /\ UNCHANGED <<PRIMES_CACHE, threads, retry, time_max, low, high>>

\* one iteration of the receive loop of caller c
caller_recv(c) ==
    /\ caller[c].pc = "search"
    /\ caller[c].recvd < threads
    /\ Len(caller[c].rx) > caller[c].recvd
    /\ LET r == caller[c].rx[caller[c].recvd + 1]
       IN  PRIMES_CACHE' = IF r.ok THEN Append(PRIMES_CACHE, r.v) ELSE PRIMES_CACHE
    /\ caller' = [caller EXCEPT
                      ![c].recvd = @ + 1,
                      ![c].pc = IF caller[c].recvd + 1 = threads THEN "join" ELSE "search"]
    /\ UNCHANGED <<threads, retry, time_max, low, high>>

\* the workers are joined: if PRIMES_CACHE.read().unwrap().is_empty()
caller_check_found(c) ==
    /\ caller[c].pc = "join"
    /\ caller' = IF PRIMES_CACHE = <<>>
                 THEN IF retry
                      THEN [caller EXCEPT ![c].pc = "entry"]
                      ELSE [caller EXCEPT
                               ![c].pc = "idle",
                               ![c].result = [valid |-> FALSE, Timeout |-> time_max]]
                 ELSE [caller EXCEPT ![c].pc = "pop_found"]
    /\ UNCHANGED <<PRIMES_CACHE, threads, retry, time_max, low, high>>

RaceNext ==
    \/ \E c \in 1..MaxCallers :
          caller_generate_prime(c)
              /\ UNCHANGED <<arithVars, procVars, codecVars, raceFixed>>
    \/ \E c \in 1..MaxCallers :
          caller_check_cache(c) /\ UNCHANGED <<arithVars, procVars, codecVars, raceFixed>>
    \/ \E c \in 1..MaxCallers :
          caller_pop(c) /\ UNCHANGED <<arithVars, procVars, codecVars, raceFixed>>
    \/ \E c \in 1..MaxCallers :
          caller_worker_found(c)
              /\ UNCHANGED <<arithVars, procVars, codecVars, raceFixed>>
    \/ \E c \in 1..MaxCallers :
          caller_worker_timeout(c)
              /\ UNCHANGED <<arithVars, procVars, codecVars, raceFixed>>
    \/ \E c \in 1..MaxCallers :
          caller_recv(c) /\ UNCHANGED <<arithVars, procVars, codecVars, raceFixed>>
    \/ \E c \in 1..MaxCallers :
          caller_check_found(c)
              /\ UNCHANGED <<arithVars, procVars, codecVars, raceFixed>>

SpecRace == RaceInit /\ [][RaceNext]_vars

(***************************************************************************)
(* mod.rs: RSA::read_source, RSA::get_group_size_byte, RSA::process;       *)
(* main.rs: tests::function_test, which encodes a file with the public key *)
(* and decodes the result with the private key.                            *)
(***************************************************************************)
\* the key sets (p, q, e) of the runs: generate_key can return each of them
KeyChoices == {<<17, 11, 7>>, <<181, 191, 7>>, <<503, 509, 3>>, <<4093, 4099, 5>>}

\* the byte values of the input files
ByteSample == {0, 255}

\* mod.rs 142-151: the KeySet generate_key builds from p, q and e
KeySetOf(c) ==
    LET n == c[1] * c[2]
        f == euler(c[1], c[2])
        d == mod_reverse(c[3], f)
    IN  [public |-> [base |-> c[3], m |-> n], private |-> [base |-> d, m |-> n]]

\* the byte strings of length 0..n over ByteSample
BytesUpTo(n) == UNION {[1..k -> ByteSample] : k \in 0..n}

\* BigInt::from_bytes_le(Sign::Plus, bytes)
RECURSIVE from_bytes_le(_)
from_bytes_le(bytes) ==
    IF bytes = <<>> THEN 0 ELSE Head(bytes) + 256 * from_bytes_le(Tail(bytes))

\* BigInt::to_bytes_le().1: no high-order zero byte; zero is the one byte 0
RECURSIVE to_bytes_le(_)
to_bytes_le(v) ==
    IF v < 256 THEN <<v>> ELSE <<v % 256>> \o to_bytes_le(v \div 256)

\* u64::to_le_bytes
RECURSIVE LeBytes(_, _)
LeBytes(v, n) == IF n = 0 THEN <<>> ELSE <<v % 256>> \o LeBytes(v \div 256, n - 1)

to_le_bytes(v) == LeBytes(v, 8)

Zeros(n) == [j \in 1..n |-> 0]

\* the blocks the loop of read_source calls cuts the reader into: read_source
\* takes a byte before it compares the length, so it returns at least one
RECURSIVE SourceBlocks(_, _)
SourceBlocks(bytes, size) ==
    IF bytes = <<>> THEN <<>>
    ELSE LET take == IF size < 1 THEN 1
                     ELSE IF Len(bytes) < size THEN Len(bytes) ELSE size
         IN  <<SubSeq(bytes, 1, take)>>
                 \o SourceBlocks(SubSeq(bytes, take + 1, Len(bytes)), size)

RECURSIVE Concat(_)
Concat(blocks) == IF blocks = <<>> THEN <<>> ELSE Head(blocks) \o Concat(Tail(blocks))

\* res_collect left in the order of arrival
NoSort(rs) == rs

\* res_collect.sort_by(|a, b| a.0.partial_cmp(&b.0).unwrap())
RECURSIVE SortByIndex(_)
SortByIndex(rs) ==
    IF rs = <<>> THEN <<>>
    ELSE LET m == CHOOSE j \in 1..Len(rs) :
                      \A k \in 1..Len(rs) :
                          rs[j][1] < rs[k][1] \/ (rs[j][1] = rs[k][1] /\ j <= k)
         IN  <<rs[m]>> \o SortByIndex([k \in 1..(Len(rs) - 1) |->
                                          IF k < m THEN rs[k] ELSE rs[k + 1]])

\* process has spawned its workers and has neither returned nor died
Running == co \in {"try_recv", "send", "drop", "drain", "join"}

ProcKey == IF mode = "Encode" THEN keys.public ELSE keys.private

GroupSize == get_group_size_byte(ProcKey.m) * (IF mode = "Decode" THEN 2 ELSE 1)

SourceLenTarget == GroupSize

ResLenTarget == IF mode = "Encode" THEN GroupSize * 2 ELSE GroupSize \div 2

Chunks == Len(source_data)

\* res.to_bytes_le().1 of the block with index i
NaturalData(i) ==
    to_bytes_le(fast_modular_exponent(from_bytes_le(source_data[i + 1]),
                                      ProcKey.base, ProcKey.m))

\* res_len_target - res_data_len is below zero
FillUnderflows(i) == Len(NaturalData(i)) > ResLenTarget

\* res_data as the worker sends it: padded unless it is the last block
ResData(i) ==
    IF Chunks # i + 1 /\ ~FillUnderflows(i)
    THEN NaturalData(i) \o Zeros(ResLenTarget - Len(NaturalData(i)))
    ELSE NaturalData(i)

ProcInit ==
    /\ call = [fn |-> "none"]
    /\ ret = 0
    /\ threads \in 1..MaxThreads
    /\ retry = TRUE
    /\ time_max = 1000
    /\ prime_min = 3
    /\ prime_max = 13
    /\ PRIMES_CACHE = <<>>
    /\ at = "done"
    /\ gp = "none"
    /\ low = 0
    /\ high = 0
    /\ running = 0
    /\ rx = <<>>
    /\ recvd = 0
    /\ \E c \in KeyChoices :
           /\ gk_p = c[1]
           /\ gk_q = c[2]
           /\ keys = KeySetOf(c)
    /\ returned = [valid |-> FALSE]
    /\ caller = <<>>
    /\ calls = 1
    /\ input \in BytesUpTo(MaxLen)
    /\ phase = "encode"
    /\ overflow_checks \in BOOLEAN
    /\ mode = "Encode"
    /\ reader = input
    /\ source_data = <<>>
    /\ filesize_data = 0
    /\ map_ch = <<>>
    /\ map_open = FALSE
    /\ reduce_ch = <<>>
    /\ worker = <<>>
    /\ co = "start"
    /\ next_i = 0
    /\ res_collect = <<>>
    /\ left = 0
    /\ written = <<>>
    /\ CodecIdle

\* mod.rs 183-257: the sizes, the length prefix, source_data, the channels
\* and the worker threads
process_start ==
    /\ co = "start"
    /\ IF mode = "Decode" /\ Len(reader) < 8
       THEN \* assert_eq!(n, 8, "Too small file!")
            /\ co' = "panic_small"
            /\ UNCHANGED <<source_data, filesize_data, map_open, worker, next_i>>
       ELSE LET body == IF mode = "Decode" THEN SubSeq(reader, 9, Len(reader))
                        ELSE reader
                blocks == SourceBlocks(body, SourceLenTarget)
                prefix == IF mode = "Decode" THEN from_bytes_le(SubSeq(reader, 1, 8))
                          ELSE 0
            IN  /\ source_data' = blocks
                /\ filesize_data' = IF prefix = 0 THEN Len(Concat(blocks)) ELSE prefix
                /\ map_open' = TRUE
                /\ worker' = [w \in 1..threads |-> [st |-> "recv"]]
                /\ next_i' = 0
                /\ co' = IF Len(blocks) = 0 THEN "drop" ELSE "try_recv"
    /\ map_ch' = <<>>
    /\ reduce_ch' = <<>>
    /\ res_collect' = <<>>
    /\ left' = 0
    /\ UNCHANGED <<input, phase, overflow_checks, mode, reader, written>>

\* a worker's r.recv() yields a block: it computes res_data
worker_recv(w) ==
    /\ Running
    /\ worker[w].st = "recv"
    /\ map_ch # <<>>
    /\ map_ch' = Tail(map_ch)
    /\ LET i == Head(map_ch)
       IN  IF ~FillUnderflows(i)
           THEN /\ worker' = [worker EXCEPT ![w] = [st |-> "send", index |-> i,
                                                    res_data |-> ResData(i)]]
                /\ co' = co
           ELSE IF overflow_checks
           THEN \* attempt to subtract with overflow: the thread panics
                /\ worker' = [worker EXCEPT ![w] = [st |-> "panicked"]]
                /\ co' = co
           ELSE IF Chunks # i + 1
           THEN \* fill wraps around: res_data.push(0) until memory runs out
                /\ worker' = [worker EXCEPT ![w] = [st |-> "runaway"]]
                /\ co' = "abort"
           ELSE /\ worker' = [worker EXCEPT ![w] = [st |-> "send", index |-> i,
                                                    res_data |-> ResData(i)]]
                /\ co' = co
    /\ UNCHANGED <<input, phase, overflow_checks, mode, reader, source_data,
                   filesize_data, map_open, reduce_ch, next_i, res_collect, left,
                   written>>

\* a worker's s.send((index, res_data)): blocks while the channel is full
worker_send(w) ==
    /\ Running
    /\ worker[w].st = "send"
    /\ Len(reduce_ch) < threads
    /\ reduce_ch' = Append(reduce_ch, <<worker[w].index, worker[w].res_data>>)
    /\ worker' = [worker EXCEPT ![w] = [st |-> "recv"]]
    /\ UNCHANGED <<input, phase, overflow_checks, mode, reader, source_data,
                   filesize_data, map_ch, map_open, co, next_i, res_collect, left,
                   written>>

\* a worker's r.recv() fails, the channel being empty and closed: it exits
worker_exit(w) ==
    /\ Running
    /\ worker[w].st = "recv"
    /\ map_ch = <<>>
    /\ ~map_open
    /\ worker' = [worker EXCEPT ![w] = [st |-> "exited"]]
    /\ UNCHANGED <<input, phase, overflow_checks, mode, reader, source_data,
                   filesize_data, map_ch, map_open, reduce_ch, co, next_i,
                   res_collect, left, written>>

\* reduce_rx.try_recv() at the top of the dispatch loop
co_try_recv ==
    /\ co = "try_recv"
    /\ IF reduce_ch # <<>>
       THEN /\ res_collect' = Append(res_collect, Head(reduce_ch))
            /\ reduce_ch' = Tail(reduce_ch)
       ELSE UNCHANGED <<res_collect, reduce_ch>>
    /\ co' = "send"
    /\ UNCHANGED <<input, phase, overflow_checks, mode, reader, source_data,
                   filesize_data, map_ch, map_open, worker, next_i, left, written>>

\* map_tx.send((i, key, source_data[i], mode)): blocks while the channel is full
co_send ==
    /\ co = "send"
    /\ Len(map_ch) < threads
    /\ map_ch' = Append(map_ch, next_i)
    /\ next_i' = next_i + 1
    /\ co' = IF next_i + 1 = Chunks THEN "drop" ELSE "try_recv"
    /\ UNCHANGED <<input, phase, overflow_checks, mode, reader, source_data,
                   filesize_data, map_open, reduce_ch, worker, res_collect, left,
                   written>>

\* drop(map_tx); let left = source_data.len() - res_collect.len()
co_drop ==
    /\ co = "drop"
    /\ map_open' = FALSE
    /\ left' = Chunks - Len(res_collect)
    /\ co' = IF Chunks - Len(res_collect) = 0 THEN "join" ELSE "drain"
    /\ UNCHANGED <<input, phase, overflow_checks, mode, reader, source_data,
                   filesize_data, map_ch, reduce_ch, worker, next_i, res_collect,
                   written>>

\* one iteration of `for _ in 0..left { reduce_rx.recv().unwrap() ... }`
co_drain ==
    /\ co = "drain"
    /\ reduce_ch # <<>>
    /\ res_collect' = Append(res_collect, Head(reduce_ch))
    /\ reduce_ch' = Tail(reduce_ch)
    /\ left' = left - 1
    /\ co' = IF left = 1 THEN "join" ELSE "drain"
    /\ UNCHANGED <<input, phase, overflow_checks, mode, reader, source_data,
                   filesize_data, map_ch, map_open, worker, next_i, written>>

\* mod.rs 283-306: join, sort, the assertions and the writes
co_finish ==
    /\ co = "join"
    /\ \A w \in 1..threads : worker[w].st \in {"exited", "panicked"}
    /\ LET sorted == SortByIndex(res_collect)
           blocks == [k \in 1..Len(sorted) |-> sorted[k][2]]
           total == Len(Concat(blocks))
       IN  IF \E w \in 1..threads : worker[w].st = "panicked"
           THEN \* handle.join().unwrap()
                /\ co' = "panic_join"
                /\ UNCHANGED <<res_collect, written>>
           ELSE IF \/ \E k \in 1..Len(sorted) : sorted[k][1] # k - 1
                   \/ Len(sorted) # Chunks
           THEN \* assert_eq!(i, res_collect[i].0) or the length assertion fails
                /\ co' = "panic_index"
                /\ res_collect' = sorted
                /\ UNCHANGED written
           ELSE IF mode = "Decode" /\ filesize_data < total
           THEN \* filesize_data - sum is below zero: panic, or zeros without end
                /\ co' = IF overflow_checks THEN "panic_sub" ELSE "abort"
                /\ res_collect' = sorted
                /\ written' = Concat(blocks)
           ELSE /\ co' = "done"
                /\ res_collect' = sorted
                /\ written' =
                       (IF mode = "Encode" THEN to_le_bytes(filesize_data) ELSE <<>>)
                           \o Concat(blocks)
                           \o (IF mode = "Decode" THEN Zeros(filesize_data - total)
                               ELSE <<>>)
    /\ UNCHANGED <<input, phase, overflow_checks, mode, reader, source_data,
                   filesize_data, map_ch, map_open, reduce_ch, worker, next_i, left>>

\* function_test: the encoded file is read back and decoded with the private key
begin_decode ==
    /\ phase = "encode"
    /\ co = "done"
    /\ phase' = "decode"
    /\ mode' = "Decode"
    /\ reader' = written
    /\ co' = "start"
    /\ written' = <<>>
    /\ UNCHANGED <<input, overflow_checks, source_data, filesize_data, map_ch,
                   map_open, reduce_ch, worker, next_i, res_collect, left>>

\* function_test returns
end_test ==
    /\ phase = "decode"
    /\ co = "done"
    /\ phase' = "done"
    /\ UNCHANGED <<input, overflow_checks, mode, reader, source_data, filesize_data,
                   map_ch, map_open, reduce_ch, worker, co, next_i, res_collect,
                   left, written>>

ProcNext ==
    \/ process_start /\ UNCHANGED <<arithVars, keyVars, codecVars>>
    \/ \E w \in 1..threads : worker_recv(w) /\ UNCHANGED <<arithVars, keyVars, codecVars>>
    \/ \E w \in 1..threads : worker_send(w) /\ UNCHANGED <<arithVars, keyVars, codecVars>>
    \/ \E w \in 1..threads : worker_exit(w) /\ UNCHANGED <<arithVars, keyVars, codecVars>>
    \/ co_try_recv /\ UNCHANGED <<arithVars, keyVars, codecVars>>
    \/ co_send /\ UNCHANGED <<arithVars, keyVars, codecVars>>
    \/ co_drop /\ UNCHANGED <<arithVars, keyVars, codecVars>>
    \/ co_drain /\ UNCHANGED <<arithVars, keyVars, codecVars>>
    \/ co_finish /\ UNCHANGED <<arithVars, keyVars, codecVars>>
    \/ begin_decode /\ UNCHANGED <<arithVars, keyVars, codecVars>>
    \/ end_test /\ UNCHANGED <<arithVars, keyVars, codecVars>>

SpecProc == ProcInit /\ [][ProcNext]_vars

\* the steps of the thread that runs function_test and process
Coordinator ==
    \/ process_start
    \/ co_try_recv
    \/ co_send
    \/ co_drop
    \/ co_drain
    \/ co_finish
    \/ begin_decode
    \/ end_test

\* the steps of the worker thread w
Worker(w) ==
    /\ w <= threads
    /\ (worker_recv(w) \/ worker_send(w) \/ worker_exit(w))

\* the operating system schedules every thread that can take a step
SpecProcFair ==
    /\ ProcInit
    /\ [][ProcNext]_vars
    /\ WF_vars(Coordinator /\ UNCHANGED <<arithVars, keyVars, codecVars>>)
    /\ \A w \in 1..MaxThreads :
           WF_vars(Worker(w) /\ UNCHANGED <<arithVars, keyVars, codecVars>>)

(***************************************************************************)
(* keys: key_data.rs, key_writer.rs (KeyWriter, KeyData::save) and         *)
(* key_reader.rs (KeyReader, impl From<String> for KeyData).  Strings and  *)
(* files are sequences of bytes.                                           *)
(***************************************************************************)
\* the values of base and m of the keys that are saved
KeySample == {0, 7, 187, 256, 65537, 16777207}

\* the comments of the keys that are saved: "", "H", "Hi", "Hello RSA!" and
\* one that makes the base64 text longer than a line
CommentSample == {<<>>, <<72>>, <<72, 105>>,
                  <<72, 101, 108, 108, 111, 32, 82, 83, 65, 33>>,
                  [j \in 1..46 |-> 97 + (j % 26)]}

\* keys/mod.rs: const BASE64_SPLIT
BASE64_SPLIT == 70

\* key_reader.rs: const READER_JUDGE_BUF
READER_JUDGE_BUF == 4

\* KeyData::new_public(key, comment): mode "PUBLIC_"
new_public(key, comment) ==
    [mode |-> <<80, 85, 66, 76, 73, 67, 95>>, comment |-> comment, key |-> key,
     header |-> <<>>, footer |-> <<>>]

\* KeyData::new_private(key, comment): mode "PRIVATE"
new_private(key, comment) ==
    [mode |-> <<80, 82, 73, 86, 65, 84, 69>>, comment |-> comment, key |-> key,
     header |-> <<>>, footer |-> <<>>]

\* str::to_uppercase on ASCII
to_uppercase(str) ==
    [j \in 1..Len(str) |-> IF str[j] >= 97 /\ str[j] <= 122 THEN str[j] - 32
                           ELSE str[j]]

\* KeyData::generate_header_footer:
\* "-----BEGIN RSA-RS {} KEY-----" and "-----END RSA-RS {} KEY-----"
generate_header_footer(k) ==
    [k EXCEPT !.header = <<45, 45, 45, 45, 45, 66, 69, 71, 73, 78, 32,
                           82, 83, 65, 45, 82, 83, 32>>
                             \o to_uppercase(k.mode)
                             \o <<32, 75, 69, 89, 45, 45, 45, 45, 45>>,
              !.footer = <<45, 45, 45, 45, 45, 69, 78, 68, 32,
                           82, 83, 65, 45, 82, 83, 32>>
                             \o to_uppercase(k.mode)
                             \o <<32, 75, 69, 89, 45, 45, 45, 45, 45>>]

\* the first n elements of a sequence, or all of it
Take(bytes, n) == SubSeq(bytes, 1, IF Len(bytes) < n THEN Len(bytes) ELSE n)

\* the elements after the first n
Drop(bytes, n) == SubSeq(bytes, n + 1, Len(bytes))

\* Read::read into a zeroed buffer of n bytes
ReadInto(bytes, n) == Take(bytes, n) \o Zeros(n - Len(Take(bytes, n)))

\* base64::STANDARD: the character of a 6-bit value
B64Char(v) ==
    IF v < 26 THEN 65 + v
    ELSE IF v < 52 THEN 97 + (v - 26)
    ELSE IF v < 62 THEN 48 + (v - 52)
    ELSE IF v = 62 THEN 43 ELSE 47

\* base64::STANDARD: the 6-bit value of a character, -1 if it has none
B64Value(c) ==
    IF c >= 65 /\ c <= 90 THEN c - 65
    ELSE IF c >= 97 /\ c <= 122 THEN c - 97 + 26
    ELSE IF c >= 48 /\ c <= 57 THEN c - 48 + 52
    ELSE IF c = 43 THEN 62
    ELSE IF c = 47 THEN 63 ELSE -1

\* base64::write::EncoderWriter: the characters of the complete input
\* triples.  An incomplete last triple stays in the encoder: flush does not
\* write it, and what finish writes when the encoder is dropped only reaches
\* the buffer of the KeyWriter, which is not flushed again.
RECURSIVE EncoderWriter(_)
EncoderWriter(bytes) ==
    IF Len(bytes) < 3 THEN <<>>
    ELSE LET v == bytes[1] * 65536 + bytes[2] * 256 + bytes[3]
         IN  <<B64Char(v \div 262144), B64Char((v \div 4096) % 64),
               B64Char((v \div 64) % 64), B64Char(v % 64)>>
                 \o EncoderWriter(Drop(bytes, 3))

\* base64::read::DecoderReader accepts the characters
B64Valid(chars) ==
    /\ Len(chars) % 4 = 0
    /\ \A j \in 1..Len(chars) : B64Value(chars[j]) >= 0

\* base64::read::DecoderReader: the bytes of the quadruples
RECURSIVE DecoderReader(_)
DecoderReader(chars) ==
    IF Len(chars) < 4 THEN <<>>
    ELSE LET v == B64Value(chars[1]) * 262144 + B64Value(chars[2]) * 4096
                      + B64Value(chars[3]) * 64 + B64Value(chars[4])
         IN  <<v \div 65536, (v \div 256) % 256, v % 256>>
                 \o DecoderReader(Drop(chars, 4))

\* KeyWriter::flush, the loop: the buffer in lines of BASE64_SPLIT bytes
RECURSIVE SplitLines(_)
SplitLines(buffer) ==
    IF buffer = <<>> THEN <<>>
    ELSE Take(buffer, BASE64_SPLIT) \o <<10>> \o SplitLines(Drop(buffer, BASE64_SPLIT))

\* KeyWriter::flush: header, "\n", the lines, footer
KeyWriter_flush(header, buffer, footer) ==
    header \o <<10>> \o SplitLines(buffer) \o footer

\* KeyData::save: what is written to f
Payload(k) ==
    LET base == to_bytes_le(k.key.base)
        m == to_bytes_le(k.key.m)
    IN  LeBytes(Len(base), 4) \o LeBytes(Len(m), 4) \o base \o m
            \o ReadInto(k.mode, 7) \o k.comment

\* KeyData::save: the bytes of the file
SavedBytes(k, b64) ==
    IF b64 THEN KeyWriter_flush(k.header, EncoderWriter(Payload(k)), k.footer)
    ELSE Payload(k)

\* u8::is_ascii
is_ascii(c) == c >= 0 /\ c <= 127

\* is_ascii_graphic accepting the control characters and the space as well
is_ascii_graphic_with_controls(c) == c >= 0 /\ c <= 126

\* u8::is_ascii_graphic
is_ascii_graphic(c) == c >= 33 /\ c <= 126

\* KeyReader::judge_binary: binary = Some(count < READER_JUDGE_BUF) over the
\* bytes of temp, "Err" when the file has fewer bytes
judge_binary(bytes) ==
    IF Len(bytes) < READER_JUDGE_BUF THEN "Err"
    ELSE IF Cardinality({j \in 1..READER_JUDGE_BUF : is_ascii_graphic(bytes[j])})
                < READER_JUDGE_BUF
    THEN "Some(true)" ELSE "Some(false)"

\* BufRead::read_line: the first line with its "\n"
RECURSIVE LineLen(_)
LineLen(bytes) ==
    IF bytes = <<>> THEN 0
    ELSE IF Head(bytes) = 10 THEN 1 ELSE 1 + LineLen(Tail(bytes))

\* a line kept with its "\n"
KeepNewlines(line) == line

\* str::replace("\n", "") and the loop that skips '\n'
RECURSIVE StripNewlines(_)
StripNewlines(line) ==
    IF line = <<>> THEN <<>>
    ELSE (IF Head(line) = 10 THEN <<>> ELSE <<Head(line)>>) \o StripNewlines(Tail(line))

\* str::contains("END")
ContainsEND(line) ==
    \E j \in 1..(Len(line) - 2) : line[j] = 69 /\ line[j + 1] = 78 /\ line[j + 2] = 68

\* KeyReader::parse_text: res_buf, header and footer after the lines of bytes
RECURSIVE parse_text(_, _)
parse_text(r, bytes) ==
    IF bytes = <<>> THEN r
    ELSE LET n == LineLen(bytes)
             line == Take(bytes, n)
         IN  IF \E j \in 1..n : ~is_ascii(line[j])
             THEN r    \* read_line fails on bytes that are not UTF-8
             ELSE parse_text(
                      IF line[1] # 45
                      THEN [r EXCEPT !.res_buf = r.res_buf \o StripNewlines(line)]
                      ELSE IF ContainsEND(line)
                      THEN [r EXCEPT !.footer = StripNewlines(line)]
                      ELSE [r EXCEPT !.header = StripNewlines(line)],
                      Drop(bytes, n))

\* KeyReader::new on the bytes of a file: "panic" when judge_binary fails
KeyReader_of(bytes) ==
    LET binary == judge_binary(bytes)
        r == [binary |-> binary, read_buf |-> bytes, res_buf |-> <<>>,
              header |-> <<>>, footer |-> <<>>]
    IN  IF binary = "Err" THEN [binary |-> "panic"]
        ELSE IF binary = "Some(true)"
        THEN [r EXCEPT !.res_buf = bytes, !.read_buf = <<>>]
        ELSE parse_text(r, bytes)

\* impl From<String> for KeyData, after read_all: the KeyData in content
ParseContent(content, r) ==
    LET len_base == from_bytes_le(ReadInto(content, 4))
        len_m == from_bytes_le(ReadInto(Drop(content, 4), 4))
        data == Drop(content, 8)
    IN  IF len_base + len_m > Len(data)
        THEN [valid |-> TRUE, panic |-> TRUE]    \* data[i] is out of bounds
        ELSE [valid |-> TRUE, panic |-> FALSE,
              mode |-> ReadInto(Drop(data, len_base + len_m), 7),
              comment |-> Drop(data, len_base + len_m + 7),
              key |-> [base |-> from_bytes_le(Take(data, len_base)),
                       m |-> from_bytes_le(Take(Drop(data, len_base), len_m))],
              header |-> r.header, footer |-> r.footer]

\* KeyReader::read_all: content, or a panic when the base64 reader fails
read_all(r) ==
    IF r.binary = "Some(true)" THEN [panic |-> FALSE, content |-> r.res_buf]
    ELSE IF B64Valid(r.res_buf)
    THEN [panic |-> FALSE, content |-> DecoderReader(r.res_buf)]
    ELSE [panic |-> TRUE]

CodecInit ==
    /\ call = [fn |-> "none"]
    /\ ret = 0
    /\ threads = 1
    /\ retry = TRUE
    /\ time_max = 1000
    /\ prime_min = 14
    /\ prime_max = 512
    /\ KeyIdle
    /\ ProcIdle
    /\ \E base \in KeySample, m \in KeySample, comment \in CommentSample :
           kd \in {new_public([base |-> base, m |-> m], comment),
                   new_private([base |-> base, m |-> m], comment)}
    /\ base64_output \in BOOLEAN
    /\ file = [exists |-> FALSE]
    /\ key_reader = [binary |-> "None"]
    /\ loaded = [valid |-> FALSE]

\* KeyData::save(path, base64_output)
save ==
    /\ ~file.exists
    /\ LET k == IF kd.footer = <<>> /\ kd.header = <<>>
                THEN generate_header_footer(kd) ELSE kd
       IN  /\ kd' = k
           /\ file' = [exists |-> TRUE, bytes |-> SavedBytes(k, base64_output)]
    /\ UNCHANGED <<base64_output, key_reader, loaded>>

\* KeyReader::new(Box::new(File::open(path).unwrap()))
KeyReader_new ==
    /\ file.exists
    /\ key_reader.binary = "None"
    /\ key_reader' = KeyReader_of(file.bytes)
    /\ UNCHANGED <<kd, base64_output, file, loaded>>

\* KeyData::from(path)
KeyData_from ==
    /\ ~loaded.valid
    /\ IF ~file.exists
       THEN /\ loaded' = [valid |-> TRUE, panic |-> FALSE, mode |-> <<>>,
                          comment |-> <<>>, key |-> [base |-> 0, m |-> 0],
                          header |-> <<>>, footer |-> <<>>]
            /\ UNCHANGED key_reader
       ELSE LET r == KeyReader_of(file.bytes)
            IN  /\ key_reader' = r
                /\ loaded' = IF r.binary = "panic" THEN [valid |-> TRUE, panic |-> TRUE]
                             ELSE IF read_all(r).panic
                             THEN [valid |-> TRUE, panic |-> TRUE]
                             ELSE ParseContent(read_all(r).content, r)
    /\ UNCHANGED <<kd, base64_output, file>>

CodecNext ==
    \/ save /\ UNCHANGED <<arithVars, keyVars, procVars>>
    \/ KeyReader_new /\ UNCHANGED <<arithVars, keyVars, procVars>>
    \/ KeyData_from /\ UNCHANGED <<arithVars, keyVars, procVars>>

SpecCodec == CodecInit /\ [][CodecNext]_vars

(***************************************************************************)
(*                               Properties                                *)
(***************************************************************************)
Min(a, b) == IF a <= b THEN a ELSE b

\* n has a divisor k with 1 < k < min(n, 10000)
HasDivisor(n) == \E k \in 2..(Min(n, 10000) - 1) : n % k = 0

IsPrime(n) == n >= 2 /\ \A k \in 2..(n - 1) : n % k # 0

\* a^q by repeated multiplication
RECURSIVE NaivePow(_, _)
NaivePow(a, q) == IF q = 0 THEN 1 ELSE a * NaivePow(a, q - 1)

IsOddAboveOne(n) == n > 1 /\ n % 2 = 1

\* C7 (as stated): for every odd n > 1, every rounds >= 1 and every choice of
\* the witnesses, if miller_rabin returns true then n has no divisor k with
\* 1 < k < min(n, 10000).
C7_Original ==
    (call.fn = "miller_rabin" /\ IsOddAboveOne(call.n) /\ ret = TRUE)
        => ~HasDivisor(call.n)

\* C7 (amended): for every odd n > 1 and every rounds >= 1, if miller_rabin
\* returns true for every choice of the witnesses then n has no divisor k with
\* 1 < k < min(n, 10000); that is, an odd n with such a divisor is rejected
\* for at least one choice of the witnesses.
C7_Amended ==
    (call.fn = "miller_rabin" /\ IsOddAboveOne(call.n) /\ HasDivisor(call.n))
        => \E ws \in WitnessSeqs(call.n, call.rounds) : ~miller_rabin(call.n, ws)

\* an odd composite that miller_rabin declared prime
C7_Witness ==
    /\ call.fn = "miller_rabin"
    /\ IsOddAboveOne(call.n)
    /\ HasDivisor(call.n)
    /\ ret = TRUE

\* C8 (as stated): for every e >= 0 and phi >= 1 with gcd(e, phi) = 1,
\* (mod_reverse(e, phi) * e) mod phi = 1.
C8_Original ==
    (call.fn = "mod_reverse" /\ gcd(call.a, call.b) = 1)
        => TruncRem(ret * call.a, call.b) = 1

\* C8 (amended): for every e >= 0 and phi >= 2 with gcd(e, phi) = 1,
\* (mod_reverse(e, phi) * e) mod phi = 1.
C8_Amended ==
    (call.fn = "mod_reverse" /\ call.b >= 2 /\ gcd(call.a, call.b) = 1)
        => TruncRem(ret * call.a, call.b) = 1

\* an inverse whose Bezout coefficient came out negative and was normalised
C8_Witness ==
    /\ call.fn = "mod_reverse"
    /\ call.b >= 2
    /\ gcd(call.a, call.b) = 1
    /\ extended_euclid(call.a, call.b, 0, 1)[2] < 0
    /\ ret > 0
    /\ TruncRem(ret * call.a, call.b) = 1

\* C9 (as stated): for all a >= 0, q >= 0 and n > 0,
\* fast_modular_exponent(a, q, n) = a^q mod n by naive repeated multiplication.
C9_Original ==
    call.fn = "fast_modular_exponent"
        => ret = NaivePow(call.a, call.q) % call.n

\* C9 (amended): for all a >= 0, q >= 0 and n > 1,
\* fast_modular_exponent(a, q, n) = a^q mod n by naive repeated multiplication;
\* for n = 1 this holds when q > 0, and q = 0 returns 1.
C9_Amended ==
    call.fn = "fast_modular_exponent"
        => /\ (call.n > 1 \/ call.q > 0) => ret = NaivePow(call.a, call.q) % call.n
           /\ call.q = 0 => ret = 1

\* an exponent of several bits applied to a base that is not reduced modulo n
C9_Witness ==
    /\ call.fn = "fast_modular_exponent"
    /\ call.n > 1
    /\ call.a > call.n
    /\ call.q >= 5
    /\ ret = NaivePow(call.a, call.q) % call.n
    /\ ret > 1

\* C10: for distinct primes p and q, n = p*q, phi = (p-1)*(q-1), any e with
\* gcd(e, phi) = 1 and d = mod_reverse(e, phi), every x in 0..n-1 is
\* recovered by exponentiation with e and then with d; p = 17, q = 11, e = 7
\* gives phi = 160, d = 23, n = 187 and 88 -> 11 -> 88.
C10_BlockRoundTrip ==
    (/\ call.fn = "test_simple_data"
     /\ IsPrime(call.p) /\ IsPrime(call.q) /\ call.p # call.q
     /\ gcd(call.e, euler(call.p, call.q)) = 1)
        => /\ ~ret.panic
           /\ ret.m2 = call.x
           /\ (call.p = 17 /\ call.q = 11 /\ call.e = 7)
                => /\ ret.f = 160 /\ ret.d = 23 /\ ret.n = 187
                   /\ call.x = 88 => (ret.c = 11 /\ ret.m2 = 88)

\* the toy key applied to the message 88
C10_Witness ==
    /\ call.fn = "test_simple_data"
    /\ call.p = 17 /\ call.q = 11 /\ call.e = 7 /\ call.x = 88
    /\ ~ret.panic
    /\ ret.c = 11

KeyOf(k) == IF k = "public" THEN keys.public ELSE keys.private

\* C3: every value returned by generate_prime(low, high), popped from the
\* cache or found by the current search, lies in [low, high) and has passed
\* miller_rabin.
C3_ReturnedInBounds ==
    returned.valid
        => /\ returned.low <= returned.v
           /\ returned.v < returned.high
           /\ returned.v \in ProbablePrimes

\* C4: the modulus of every key returned by generate_key is the product of
\* two distinct odd primes; p and q are never equal.
C4_DistinctPrimes ==
    at = "done"
        => /\ gk_p # gk_q
           /\ IsPrime(gk_p) /\ gk_p % 2 = 1
           /\ IsPrime(gk_q) /\ gk_q % 2 = 1
           /\ keys.public.m = gk_p * gk_q
           /\ keys.private.m = gk_p * gk_q

\* C5: both keys returned by generate_key satisfy 0 < base < m.
C5_BaseBelowModulus ==
    at = "done"
        => \A k \in {"public", "private"} :
               0 < KeyOf(k).base /\ KeyOf(k).base < KeyOf(k).m

\* C6: whenever generate_key returns, the two keys share the modulus n = p*q
\* and (d*e) mod ((p-1)*(q-1)) = 1; the assertion of check_key_set never fails.
C6_KeySetChecked ==
    /\ at # "panic"
    /\ at = "done"
        => /\ keys.public.m = gk_p * gk_q
           /\ keys.private.m = gk_p * gk_q
           /\ TruncRem(keys.private.base * keys.public.base, euler(gk_p, gk_q)) = 1

\* generate_key has returned a key set whose exponents differ
C6_Witness ==
    /\ at = "done"
    /\ keys.public.base # keys.private.base
    /\ keys.public.base > 1
    /\ gcd(euler(gk_p, gk_q), keys.public.base) = 1


\* what process writes when the blocks are transformed one after the other in
\* index order, as a run with threads = 1 does
SequentialOutput ==
    LET blocks == [k \in 1..Chunks |-> ResData(k - 1)]
    IN  (IF mode = "Encode" THEN to_le_bytes(filesize_data) ELSE <<>>)
            \o Concat(blocks)
            \o (IF mode = "Decode" THEN Zeros(filesize_data - Len(Concat(blocks)))
                ELSE <<>>)

\* C1: for every byte string, thread count and key pair of generate_key, Encode
\* with the public key followed by Decode with the private key runs to the end
\* (no worker or coordinator dies) and yields exactly the input bytes.
C1_RoundTrip ==
    /\ \A w \in 1..Len(worker) : worker[w].st # "panicked"
    /\ co \notin {"panic_small", "panic_join", "panic_index", "panic_sub", "abort"}
    /\ phase = "done" => written = input

\* C2: for any thread count and any interleaving of the workers the index
\* assertions after the sort never fail, and the bytes process writes are the
\* transformed blocks in index order 0..chunks-1, each exactly once: the
\* output of a run with threads = 1.
C2_BlockOrder ==
    /\ co # "panic_index"
    /\ co = "done" =>
           /\ Len(res_collect) = Chunks
           /\ \A k \in 1..Chunks : res_collect[k] = <<k - 1, ResData(k - 1)>>
           /\ written = SequentialOutput

C2_Witness ==
    /\ co = "done"
    /\ mode = "Decode"
    /\ threads >= 2
    /\ Chunks >= 3
    /\ \E j, k \in 1..Chunks : ResData(j - 1) # ResData(k - 1)
    /\ written = SequentialOutput


C12_AutoDetect ==
    key_reader.binary # "None" =>
        /\ key_reader.binary = IF base64_output THEN "Some(false)" ELSE "Some(true)"
        /\ key_reader.binary = "Some(false)"
               <=> \A j \in 1..4 : is_ascii_graphic(file.bytes[j])

C12_Witness ==
    /\ key_reader.binary = "Some(false)"
    /\ base64_output
    /\ ~loaded.valid
    /\ key_reader.header = kd.header
    /\ key_reader.footer = kd.footer
    /\ key_reader.res_buf = EncoderWriter(Payload(kd))


\* C13: in Encode mode, for a key with B >= 1, no worker dies on the padding
\* length res_len_target - res_data_len or on its length assertion, and the
\* output is the 8-byte little-endian count of input bytes followed by one
\* cipher block per source block, each but the last 2*B bytes long.
C13_EncodeShape ==
    (mode = "Encode" /\ get_group_size_byte(keys.public.m) >= 1) =>
        /\ \A w \in 1..Len(worker) : worker[w].st \notin {"panicked", "runaway"}
        /\ \A w \in 1..Len(worker) :
               worker[w].st = "send" => Len(worker[w].res_data) <= ResLenTarget
        /\ co # "abort"
        /\ co = "done" =>
               /\ Len(res_collect) = Chunks
               /\ \A k \in 1..(Chunks - 1) :
                      Len(res_collect[k][2]) = 2 * get_group_size_byte(keys.public.m)
               /\ written = to_le_bytes(Len(input))
                               \o Concat([k \in 1..Chunks |-> res_collect[k][2]])


\* C14: process in Decode mode, given a ciphertext that process in Encode mode
\* produced from an input of L bytes and the matching private key, runs to
\* the end and writes exactly L bytes: the decrypted blocks, which are never
\* more than L bytes, followed by the zero bytes that are missing.
C14_DecodeLength ==
    (phase \in {"decode", "done"} /\ mode = "Decode") =>
        /\ \A w \in 1..Len(worker) : worker[w].st \notin {"panicked", "runaway"}
        /\ co \notin {"abort", "panic_sub", "panic_small", "panic_join"}
        /\ co = "done" =>
               LET total == Len(Concat([k \in 1..Chunks |-> res_collect[k][2]]))
               IN  /\ total <= Len(input)
                   /\ Len(written) = Len(input)
                   /\ written = Concat([k \in 1..Chunks |-> res_collect[k][2]])
                                   \o Zeros(Len(input) - total)


\* the block size of the specification: 2^ceil(log2(ceil(bits(m)/8))) / 2
SpecBlockSize(m) ==
    LET len == (Bits(m) + 7) \div 8
    IN  IF len = 0 THEN 0 ELSE (2 ^ CeilLog2(len)) \div 2

\* C15: get_group_size_byte(m) is B = 2^ceil(log2(ceil(bits(m)/8))) / 2, the
\* largest power of two strictly below the byte length of m when that length
\* is at least 2.
C15_GroupSize ==
    call.fn = "get_group_size_byte" =>
        /\ ret = SpecBlockSize(call.m)
        /\ (Bits(call.m) + 7) \div 8 >= 2 =>
               /\ ret < (Bits(call.m) + 7) \div 8
               /\ 2 * ret >= (Bits(call.m) + 7) \div 8
               /\ \E j \in 0..5 : ret = 2 ^ j

\* C16: generate_prime returns Timeout only when retry is off and the cache is
\* still empty after every worker has reported and been joined; the error
\* carries the configured time_max (not a worker's measured time); with retry
\* on, the empty cache after the join leads back to the entry of generate_prime
\* (a new search) and never to Timeout.
C16_TimeoutOnlyWithoutRetry ==
    /\ [](at = "err" =>
            /\ ~retry
            /\ PRIMES_CACHE = <<>>
            /\ recvd = threads
            /\ running = 0
            /\ \A j \in 1..Len(rx) : ~rx[j].ok
            /\ returned = [valid |-> FALSE, Timeout |-> time_max])
    /\ [](retry => at # "err")
    /\ [][(gp = "join" /\ PRIMES_CACHE = <<>> /\ retry)
              => (gp' = "entry" /\ at' = at /\ PRIMES_CACHE' = <<>>)]_vars
    /\ [][(gp = "entry" /\ PRIMES_CACHE = <<>>)
              => (gp' = "search" /\ running' = threads /\ recvd' = 0)]_vars

C16_Witness ==
    /\ at = "err"
    /\ ~retry
    /\ threads = 2
    /\ Len(rx) = 2
    /\ rx[1].time # time_max
    /\ returned = [valid |-> FALSE, Timeout |-> time_max]
    /\ time_max = 1

\* C18: for every odd n > 1, miller_rabin decomposes n - 1 = 2^s * d with d odd
\* and raises each witness to that odd exponent d in the first modular
\* exponentiation of the round (call.d is the exponent the rounds start from).
C18_OddExponent ==
    (call.fn = "miller_rabin" /\ IsOddAboveOne(call.n))
        => /\ call.d % 2 = 1
           /\ \E s \in 1..MaxCand : call.n - 1 = (2 ^ s) * call.d

\* the successful results among the first j results of the current search
FoundAmong(j) == {i \in 1..j : rx[i].ok}

\* C19: with a single caller the prime cache changes only by the push of a
\* worker's successful prime or by the pop of the entry generate_prime returns:
\* every received success is pushed, every return pops exactly one entry; a
\* search that started on an empty cache holds, after the joins, exactly the k
\* primes its workers found, returns one of them and leaves k - 1; a call that
\* finds the cache non-empty removes exactly one entry and spawns no workers.
C19_CacheAccounting ==
    /\ [](gp \in {"search", "join"} => Len(PRIMES_CACHE) = Cardinality(FoundAmong(recvd)))
    /\ [](gp = "join" => recvd = threads /\ Len(rx) = threads /\ running = 0)
    /\ [](gp = "pop" => PRIMES_CACHE # <<>>)
    /\ [][PRIMES_CACHE' # PRIMES_CACHE =>
              \/ /\ gp = "search"
                 /\ recvd' = recvd + 1
                 /\ rx[recvd'].ok
                 /\ PRIMES_CACHE' = Append(PRIMES_CACHE, rx[recvd'].v)
                 /\ returned' = returned
              \/ /\ gp \in {"pop", "join"}
                 /\ PRIMES_CACHE # <<>>
                 /\ PRIMES_CACHE' = SubSeq(PRIMES_CACHE, 1, Len(PRIMES_CACHE) - 1)
                 /\ returned'.valid
                 /\ returned'.v = PRIMES_CACHE[Len(PRIMES_CACHE)]]_vars
    /\ [][(recvd' = recvd + 1 /\ rx[recvd'].ok)
              => Len(PRIMES_CACHE') = Len(PRIMES_CACHE) + 1]_vars
    /\ [][(gp = "join" /\ PRIMES_CACHE # <<>>) =>
              /\ Cardinality(FoundAmong(threads)) >= 1
              /\ Len(PRIMES_CACHE') = Cardinality(FoundAmong(threads)) - 1
              /\ returned'.valid
              /\ ~returned'.cached
              /\ \E i \in FoundAmong(threads) : returned'.v = rx[i].v]_vars
    /\ [][gp = "pop" =>
              /\ Len(PRIMES_CACHE') = Len(PRIMES_CACHE) - 1
              /\ returned'.valid
              /\ returned'.cached
              /\ UNCHANGED <<running, rx, recvd>>]_vars

\* two workers succeeded: the search returned the second prime and left the
\* first, which the next call took from the cache without a search
C19_Witness ==
    /\ threads = 2
    /\ Len(rx) = 2
    /\ rx[1].ok
    /\ rx[2].ok
    /\ at = "q"
    /\ gk_p = rx[2].v
    /\ returned.valid
    /\ returned.cached
    /\ returned.v = rx[1].v
    /\ PRIMES_CACHE = <<>>
    /\ calls = 2

\* C20: when two or more threads call generate_prime concurrently on the shared
\* prime cache, no call ever pops from an empty cache: in every interleaving
\* the pop().unwrap() that follows an is_empty check finds an entry and never
\* panics.
C20_NoPopOnEmpty == \A c \in 1..MaxCallers : caller[c].pc # "panic"

\* process has returned, or the process has died (panic or abort)
Ended == co \in {"done", "panic_small", "panic_join", "panic_index", "panic_sub", "abort"}

\* C17: for any thread count >= 1, any key and any finite input, every run of
\* process eventually finishes: the coordinator never blocks forever on the
\* bounded input channel or on the result channel, it has received exactly one
\* result per dispatched block when it joins, and it returns only after every
\* worker thread has exited.  (Here even the death of the process counts as an
\* end of the run; what is left is a run that stays blocked forever.)
C17_ProcessTerminates ==
    /\ (co = "start") ~> Ended
    /\ [](co = "join" => Len(res_collect) = Chunks /\ next_i = Chunks)
    /\ [](co = "done" => \A w \in 1..threads : worker[w].st = "exited")

\* C21: for every modulus m with get_group_size_byte(m) >= 1, every source
\* block that process reads in Encode mode has at most B bytes and, read as a
\* little-endian unsigned integer x, satisfies x < m, so distinct block values
\* stay distinct residues before the exponentiation.
C21_BlockBelowModulus ==
    (mode = "Encode" /\ get_group_size_byte(keys.public.m) >= 1) =>
        /\ \A i \in 1..Len(source_data) :
               /\ Len(source_data[i]) <= get_group_size_byte(keys.public.m)
               /\ from_bytes_le(source_data[i]) < keys.public.m
               /\ from_bytes_le(source_data[i]) % keys.public.m
                      = from_bytes_le(source_data[i])
        /\ \A i, j \in 1..Len(source_data) :
               from_bytes_le(source_data[i]) # from_bytes_le(source_data[j])
                   => from_bytes_le(source_data[i]) % keys.public.m
                          # from_bytes_le(source_data[j]) % keys.public.m

\* a full block of two 0xFF bytes, the largest value a block of B = 2 bytes
\* can have, followed by a different short block
C21_Witness ==
    /\ mode = "Encode"
    /\ co = "done"
    /\ get_group_size_byte(keys.public.m) = 2
    /\ source_data = << <<255, 255>>, <<0>> >>
    /\ from_bytes_le(source_data[1]) = 65535

\* C22: for every odd prime n >= 3, every rounds >= 1 and every possible
\* choice of the random witnesses, miller_rabin(n, rounds) returns true, so no
\* prime candidate drawn by generate_one_prime is ever rejected.
C22_PrimesAccepted ==
    (call.fn = "miller_rabin" /\ call.n >= 3 /\ IsPrime(call.n)) =>
        /\ ret = TRUE
        /\ \A j \in 1..call.rounds : call.ws[j] \in 2..(call.n - 1)
        /\ \A ws \in WitnessSeqs(call.n, call.rounds) : miller_rabin(call.n, ws)

\* the prime 13 accepted in two rounds with the witnesses 2 and 12
C22_Witness ==
    /\ call.fn = "miller_rabin"
    /\ call.n = 13
    /\ call.rounds = 2
    /\ call.ws = <<2, 12>>
    /\ ret = TRUE

====
